---- MODULE Spec2Model ----
(***************************************************************************)
(* Streaming session of the Nx Tracker 2 BLE-to-OSC bridge.                *)
(*                                                                         *)
(* Three near-duplicate sessions are modelled, selected by `variant`:      *)
(*   "opennx"  src/src/opennx/tracker.py  BleakRunner (battery, reset)     *)
(*   "pynx"    src/src/pynx/tracker.py    BleakRunner (orientation only)   *)
(*   "nx"      src/src/opennx/nx.py       NxTracker (plain coroutines)     *)
(*                                                                         *)
(* A coroutine is a task record whose pc names the await it is suspended   *)
(* at; one action is the synchronous code between two awaits.  The         *)
(* transport (bleak) is the environment: an operation on a connected       *)
(* client succeeds or, within the fault budget, raises; a characteristic   *)
(* operation on a client that is not connected raises.                     *)
(***************************************************************************)
EXTENDS Integers, Sequences, FiniteSets, TLC

VARIABLES
    variant,    \* which of the three sessions this behaviour is about
    running,    \* self._running
    address,    \* self.address ("" = not yet discovered)
    client,     \* self.client: 0 = attribute never assigned, else index in clients
    clients,    \* every BleakClient created so far: [conn, subs]
    tasks,      \* coroutines submitted to the event loop: [kind, pc, cl, err, ops]
    loop,       \* "running" | "stopping" (loop.stop queued) | "stopped"
    faults,     \* transport failures injected so far
    calls,      \* names of the control calls made so far, in order
    notifs,     \* one record per notification dispatched to _on_notify
    ndisp,      \* notifications dispatched so far (orientation and battery)
    batt,       \* last value handed to the battery sink, <<>> before the first
    tkq,        \* label texts posted with after(0, ...) and not yet run by Tk
    shown,      \* label texts the Tk main loop has set so far, in order
    probe       \* input and result of a pure function applied on its own

\* the Tk side of the bridge between the loop thread and the UI thread
bridge == <<tkq, shown>>

vars == <<variant, running, address, client, clients, tasks, loop,
          faults, calls, notifs, ndisp, batt, tkq, shown, probe>>

\* ---------------------------------------------------------------- bounds
\* devices in the scan list given to the device locator on its own
MaxScan == 3
\* control calls plus notifications dispatched in one behaviour
MaxEvents == 3
\* transport failures injected in one behaviour
MaxFaults == 1

\* ------------------------------------------------------------- constants
Variants == {"opennx", "pynx", "nx"}
Runner == {"opennx", "pynx"}
STREAM_UUID == "a015"
BATTERY_UUID == "2a19"
DeviceAddress == "AA:BB"
BattLevels == {87}

\* ------------------------------------------------------------ packet codec
scale == 16384

int16(lo, hi) ==
    LET u == lo + 256 * hi IN IF u >= 32768 THEN u - 65536 ELSE u

\* struct.unpack("<5h", data): raises struct.error unless len(data) = 10
unpack5h(data) ==
    IF Len(data) # 10
    THEN [ok |-> FALSE, v |-> <<>>]
    ELSE [ok |-> TRUE, v |-> [k \in 1..5 |-> int16(data[2 * k - 1], data[2 * k])]]

\* parse_packet with the shuffle its author considered: -q3, q0, -q2, -q1
parse_packet_shuffled(data) ==
    LET u == unpack5h(data) IN
    IF ~u.ok
    THEN [ok |-> FALSE, quat |-> <<>>]
    ELSE [ok |-> TRUE,
          quat |-> << [num |-> -u.v[4], den |-> scale], [num |-> u.v[1], den |-> scale],
                      [num |-> -u.v[3], den |-> scale], [num |-> -u.v[2], den |-> scale] >>]

\* a component q / scale is kept as the exact fraction [num, den]
parse_packet(data) ==
    LET u == unpack5h(data) IN
    IF ~u.ok
    THEN [ok |-> FALSE, quat |-> <<>>]
    ELSE [ok |-> TRUE, quat |-> [k \in 1..4 |-> [num |-> u.v[k], den |-> scale]]]

GoodPacket == <<0, 0, 0, 0, 0, 64, 0, 0, 10, 0>>
OtherPacket == <<0, 8, 0, 0, 0, 0, 0, 192, 11, 0>>
ShortPacket == <<0, 0, 0, 0, 0, 64, 0, 0, 10>>
LongPacket == <<0, 0, 0, 0, 0, 64, 0, 0, 10, 0, 0>>
Packets == {GoodPacket, OtherPacket, ShortPacket, LongPacket}

\* --------------------------------------------------------- device locator
DEVICE_NAME == "Nx Tracker 2"

\* get_nx_tracker returning the last device with the tracker's name
get_nx_tracker_last(devs) ==
    LET nxs == SelectSeq(devs, LAMBDA dev : dev.name = DEVICE_NAME) IN
    IF Len(nxs) = 0
    THEN [ok |-> FALSE, err |-> "RuntimeError", address |-> "", warned |-> FALSE]
    ELSE [ok |-> TRUE, err |-> "none", address |-> nxs[Len(nxs)].address,
          warned |-> Len(nxs) > 1]

\* get_nx_tracker() applied to the list BleakScanner.discover() returned:
\* the address of the first device with the tracker's name, a warning when
\* there are several, RuntimeError when there is none
get_nx_tracker(devs) ==
    LET nxs == SelectSeq(devs, LAMBDA dev : dev.name = DEVICE_NAME) IN
    IF Len(nxs) = 0
    THEN [ok |-> FALSE, err |-> "RuntimeError", address |-> "", warned |-> FALSE]
    ELSE [ok |-> TRUE, err |-> "none", address |-> nxs[1].address,
          warned |-> Len(nxs) > 1]

\* discover_nx_trackers() of nx.py: the devices with the tracker's name, in
\* scan order; the choice among them is left to the caller
discover_nx_trackers(devs) == SelectSeq(devs, LAMBDA dev : dev.name = DEVICE_NAME)

\* what a scan made by a session finds: nothing, or the tracker
SessionScans == {<<>>, <<[name |-> DEVICE_NAME, address |-> DeviceAddress]>>}

\* ---------------------------------------------------------------- helpers
\* the bytes written by a characteristic write, by the name of the operation
Payload(op) ==
    CASE op = "write_start" -> <<255>>
      [] op = "write_stop"  -> <<0>>
      [] op = "reset_a"     -> <<50, 0, 0, 0, 0>>
      [] op = "reset_b"     -> <<50, 0, 0, 0, 1>>
      [] OTHER              -> <<>>

\* ops: the transport operations the task has issued, in order:
\*      [op, data, cl, conn (state of the client when issued), ok]
\* fut: what the caller does with the coroutine's outcome: BleakRunner drops
\*      the future of run_coroutine_threadsafe, NxTracker's caller awaits
NewTask(k, p, c) ==
    [kind |-> k, pc |-> p, cl |-> c, err |-> "none", ops |-> <<>>,
     fut |-> IF variant = "nx" THEN "awaited" ELSE "dropped"]

Finished(t) == t.pc \in {"done", "failed"}

Connected(c) == c # 0 /\ clients[c].conn = "connected"

\* the first step of a task runs in submission order (call_soon is FIFO)
CanBegin(i) ==
    /\ tasks[i].pc = "start"
    /\ \A j \in 1..(i - 1) : tasks[j].pc # "start"

LoopAlive == loop # "stopped"

\* the bound of a behaviour: control calls plus notifications dispatched
EventAllowed == Len(calls) + ndisp < MaxEvents

Called(name) == calls' = Append(calls, name)

\* outcomes of an awaited characteristic operation on client c
Results(c) ==
    IF clients[c].conn = "connected"
    THEN {"ok"} \cup (IF faults < MaxFaults THEN {"fault"} ELSE {})
    ELSE {"fail"}

\* task i of task list `base` after issuing operation op on client c
Issued(base, i, op, c, ok, next) ==
    [base EXCEPT ![i].pc = IF ok THEN next ELSE "failed",
                 ![i].err = IF ok THEN @ ELSE "BleakError",
                 ![i].ops = Append(@, [op |-> op, data |-> Payload(op), cl |-> c,
                                       conn |-> clients[c].conn, ok |-> ok])]

\* self.client does not exist yet: the attribute access raises
NoClient(base, i) ==
    /\ tasks' = [base EXCEPT ![i].pc = "failed", ![i].err = "AttributeError"]
    /\ UNCHANGED <<clients, faults>>

\* await self.client.<op>(...) issued by task i of task list `base`; on success
\* the task moves to `next` and the client gains the subscriptions add, loses del
Gatt(base, i, op, next, add, del) ==
    IF client = 0
    THEN NoClient(base, i)
    ELSE \E r \in Results(client) :
         /\ tasks' = Issued(base, i, op, client, r = "ok", next)
         /\ faults' = IF r = "fault" THEN faults + 1 ELSE faults
         /\ clients' = IF r = "ok"
                       THEN [clients EXCEPT ![client].subs = (@ \cup add) \ del]
                       ELSE clients

\* await self.client.disconnect() issued by task i: closing a client that is
\* not connected is a no-op of the transport
Disconnect(base, i, next) ==
    IF client = 0
    THEN NoClient(base, i)
    ELSE \E r \in (IF clients[client].conn = "connected" THEN Results(client) ELSE {"ok"}) :
         /\ tasks' = Issued(base, i, "disconnect", client, r = "ok", next)
         /\ faults' = IF r = "fault" THEN faults + 1 ELSE faults
         /\ clients' = IF r = "ok"
                       THEN [clients EXCEPT ![client] =
                               [conn |-> IF @.conn = "new" THEN "new" ELSE "closed",
                                subs |-> {}]]
                       ELSE clients

\* no pure function is being applied on its own
NoProbe == [fn |-> "none"]

\* ------------------------------------------------------------------- Init
Init ==
    /\ variant \in Variants
    /\ running = FALSE
    /\ address \in (IF variant = "nx" THEN {DeviceAddress} ELSE {"", DeviceAddress})
    /\ client = IF variant = "nx" THEN 1 ELSE 0
    /\ clients = IF variant = "nx" THEN <<[conn |-> "new", subs |-> {}]>> ELSE <<>>
    /\ tasks = <<>>
    /\ loop = "running"
    /\ faults = 0
    /\ calls = <<>>
    /\ notifs = <<>>
    /\ ndisp = 0
    /\ batt = <<>>
    /\ tkq = <<>>
    /\ shown = <<>>
    /\ probe = NoProbe

\* ------------------------------------------- BleakRunner: control calls
\* start_stream without its `if self._running: return`
start_stream_unguarded ==
    /\ variant \in Runner
    /\ EventAllowed
    /\ Called("start_stream")
    /\ running' = TRUE
    /\ tasks' = Append(tasks, NewTask("go", "start", 0))
    /\ UNCHANGED <<probe, bridge, variant, address, client, clients, loop, faults, notifs, ndisp, batt>>

start_stream ==
    /\ variant \in Runner
    /\ EventAllowed
    /\ Called("start_stream")
    /\ IF running
       THEN UNCHANGED <<running, tasks>>
       ELSE /\ running' = TRUE
            /\ tasks' = Append(tasks, NewTask("go", "start", 0))
    /\ UNCHANGED <<probe, bridge, variant, address, client, clients, loop, faults, notifs, ndisp, batt>>

\* stop_stream without its `if not self._running: return`
stop_stream_unguarded ==
    /\ variant \in Runner
    /\ EventAllowed
    /\ Called("stop_stream")
    /\ running' = FALSE
    /\ tasks' = Append(tasks, NewTask("stop", "start", 0))
    /\ UNCHANGED <<probe, bridge, variant, address, client, clients, loop, faults, notifs, ndisp, batt>>

\* stop_stream that schedules _stop and leaves the flag for _stop to clear
stop_stream_flag_kept ==
    /\ variant \in Runner
    /\ EventAllowed
    /\ Called("stop_stream")
    /\ IF ~running
       THEN UNCHANGED tasks
       ELSE tasks' = Append(tasks, NewTask("stop", "start", 0))
    /\ UNCHANGED <<probe, bridge, variant, running, address, client, clients, loop, faults,
                   notifs, ndisp, batt>>

stop_stream ==
    /\ variant \in Runner
    /\ EventAllowed
    /\ Called("stop_stream")
    /\ IF ~running
       THEN UNCHANGED <<running, tasks>>
       ELSE /\ running' = FALSE
            /\ tasks' = Append(tasks, NewTask("stop", "start", 0))
    /\ UNCHANGED <<probe, bridge, variant, address, client, clients, loop, faults, notifs, ndisp, batt>>

reset ==
    /\ variant = "opennx"
    /\ EventAllowed
    /\ Called("reset")
    /\ tasks' = Append(tasks, NewTask("reset", "start", 0))
    /\ UNCHANGED <<probe, bridge, variant, running, address, client, clients, loop, faults,
                   notifs, ndisp, batt>>

\* stop_stream(), then loop.call_soon_threadsafe(loop.stop)
shutdown ==
    /\ variant \in Runner
    /\ EventAllowed
    /\ Called("shutdown")
    /\ IF ~running
       THEN UNCHANGED <<running, tasks>>
       ELSE /\ running' = FALSE
            /\ tasks' = Append(tasks, NewTask("stop", "start", 0))
    /\ loop' = IF loop = "running" THEN "stopping" ELSE loop
    /\ UNCHANGED <<probe, bridge, variant, address, client, clients, faults, notifs, ndisp, batt>>

\* the queued loop.stop callback runs: run_forever returns
LoopStop ==
    /\ loop = "stopping"
    /\ loop' = "stopped"
    /\ UNCHANGED <<probe, bridge, variant, running, address, client, clients, tasks, faults,
                   calls, notifs, ndisp, batt>>

\* ------------------------------------------------ BleakRunner: _go steps
\* self.client = BleakClient(self.address); await self.client.connect() begins
CreateAndConnect(i) ==
    /\ clients' = Append(clients, [conn |-> "connecting", subs |-> {}])
    /\ client' = Len(clients) + 1
    /\ tasks' = [tasks EXCEPT ![i].pc = "connect", ![i].cl = Len(clients) + 1]

GoBegin(i) ==
    /\ LoopAlive
    /\ tasks[i].kind = "go"
    /\ CanBegin(i)
    /\ IF address = ""
       THEN /\ tasks' = [tasks EXCEPT ![i].pc = "discover"]
            /\ UNCHANGED <<client, clients>>
       ELSE CreateAndConnect(i)
    /\ UNCHANGED <<probe, bridge, variant, running, address, loop, faults, calls,
                   notifs, ndisp, batt>>

\* get_nx_tracker() returns an address or raises RuntimeError
GoDiscovered(i) ==
    /\ LoopAlive
    /\ tasks[i].kind = "go"
    /\ tasks[i].pc = "discover"
    /\ \E devs \in SessionScans :
       LET r == get_nx_tracker(devs) IN
       IF r.ok
       THEN /\ address' = r.address
            /\ CreateAndConnect(i)
            /\ UNCHANGED faults
       ELSE /\ faults < MaxFaults
            /\ faults' = faults + 1
            /\ tasks' = [tasks EXCEPT ![i].pc = "failed", ![i].err = r.err]
            /\ UNCHANGED <<address, client, clients>>
    /\ UNCHANGED <<probe, bridge, variant, running, loop, calls, notifs, ndisp, batt>>

\* the connect() awaited by task i completes, on the client that task connected
GoConnected(i) ==
    /\ LoopAlive
    /\ tasks[i].kind = "go"
    /\ tasks[i].pc = "connect"
    /\ LET c == tasks[i].cl IN
       \E r \in {"ok"} \cup (IF faults < MaxFaults THEN {"fault"} ELSE {}) :
       /\ tasks' = Issued(tasks, i, "connect", c, r = "ok", "write")
       /\ faults' = IF r = "fault" THEN faults + 1 ELSE faults
       /\ clients' = [clients EXCEPT ![c].conn =
                          IF r = "ok" \/ @ = "connected" THEN "connected" ELSE "closed"]
    /\ UNCHANGED <<probe, bridge, variant, running, address, client, loop, calls,
                   notifs, ndisp, batt>>

GoWriteStart(i) ==
    /\ LoopAlive
    /\ tasks[i].kind = "go"
    /\ tasks[i].pc = "write"
    /\ Gatt(tasks, i, "write_start", "notify_stream", {}, {})
    /\ UNCHANGED <<probe, bridge, variant, running, address, client, loop, calls,
                   notifs, ndisp, batt>>

GoNotifyStream(i) ==
    /\ LoopAlive
    /\ tasks[i].kind = "go"
    /\ tasks[i].pc = "notify_stream"
    /\ Gatt(tasks, i, "start_notify_stream",
            IF variant = "opennx" THEN "notify_batt" ELSE "done", {STREAM_UUID}, {})
    /\ UNCHANGED <<probe, bridge, variant, running, address, client, loop, calls,
                   notifs, ndisp, batt>>

GoNotifyBatt(i) ==
    /\ LoopAlive
    /\ tasks[i].kind = "go"
    /\ tasks[i].pc = "notify_batt"
    /\ Gatt(tasks, i, "start_notify_batt", "read_batt", {BATTERY_UUID}, {})
    /\ UNCHANGED <<probe, bridge, variant, running, address, client, loop, calls,
                   notifs, ndisp, batt>>

\* the battery read of _go with its result dropped instead of forwarded
GoReadBatt_unforwarded(i) ==
    /\ LoopAlive
    /\ tasks[i].kind = "go"
    /\ tasks[i].pc = "read_batt"
    /\ Gatt(tasks, i, "read_batt", "done", {}, {})
    /\ UNCHANGED <<probe, bridge, variant, running, address, client, loop, calls, notifs,
                   ndisp, batt>>

\* self._batt_update(int.from_bytes(await self.client.read_gatt_char(BATTERY_UUID)))
GoReadBatt(i) ==
    /\ LoopAlive
    /\ tasks[i].kind = "go"
    /\ tasks[i].pc = "read_batt"
    /\ Gatt(tasks, i, "read_batt", "done", {}, {})
    /\ batt' = IF tasks'[i].pc = "done" THEN <<CHOOSE b \in BattLevels : TRUE>> ELSE batt
    /\ UNCHANGED <<probe, bridge, variant, running, address, client, loop, calls, notifs,
                   ndisp>>

\* ---------------------------------------------- BleakRunner: _stop steps
StopWrite(i) ==
    /\ LoopAlive
    /\ tasks[i].kind = "stop"
    /\ CanBegin(i)
    /\ Gatt(tasks, i, "write_stop", "unsub", {}, {})
    /\ UNCHANGED <<probe, bridge, variant, running, address, client, loop, calls,
                   notifs, ndisp, batt>>

StopNotify(i) ==
    /\ LoopAlive
    /\ tasks[i].kind \in {"stop", "shutdown"}
    /\ tasks[i].pc = "unsub"
    /\ Gatt(tasks, i, "stop_notify_stream", "disconnect", {}, {STREAM_UUID})
    /\ UNCHANGED <<probe, bridge, variant, running, address, client, loop, calls,
                   notifs, ndisp, batt>>

StopDisconnect(i) ==
    /\ LoopAlive
    /\ tasks[i].kind \in {"stop", "shutdown"}
    /\ tasks[i].pc = "disconnect"
    /\ Disconnect(tasks, i, IF tasks[i].kind = "shutdown" THEN "disconnect2" ELSE "done")
    /\ UNCHANGED <<probe, bridge, variant, running, address, client, loop, calls,
                   notifs, ndisp, batt>>

\* --------------------------------------------- BleakRunner: _reset steps
\* ResetA issuing the trigger write (final byte 1) first
ResetA_trigger_first(i) ==
    /\ LoopAlive
    /\ tasks[i].kind = "reset"
    /\ CanBegin(i)
    /\ Gatt(tasks, i, "reset_b", "reset_b", {}, {})
    /\ UNCHANGED <<probe, bridge, variant, running, address, client, loop, calls,
                   notifs, ndisp, batt>>

ResetA(i) ==
    /\ LoopAlive
    /\ tasks[i].kind = "reset"
    /\ CanBegin(i)
    /\ Gatt(tasks, i, "reset_a", "reset_b", {}, {})
    /\ UNCHANGED <<probe, bridge, variant, running, address, client, loop, calls,
                   notifs, ndisp, batt>>

ResetB(i) ==
    /\ LoopAlive
    /\ tasks[i].kind = "reset"
    /\ tasks[i].pc = "reset_b"
    /\ Gatt(tasks, i, "reset_b", "done", {}, {})
    /\ UNCHANGED <<probe, bridge, variant, running, address, client, loop, calls,
                   notifs, ndisp, batt>>

\* ------------------------------------------------- NxTracker coroutines
\* The caller's task runs the coroutine up to its first await in one step:
\* the guard, the flag and the first transport call are not interleaved.
nx_start_stream ==
    /\ variant = "nx"
    /\ EventAllowed
    /\ Called("start_stream")
    /\ IF running
       THEN UNCHANGED <<running, tasks, clients>>
       ELSE /\ running' = TRUE
            /\ tasks' = Append(tasks, NewTask("go", "connect", client))
            /\ clients' = [clients EXCEPT ![client].conn =
                               IF @ = "connected" THEN @ ELSE "connecting"]
    /\ UNCHANGED <<probe, bridge, variant, address, client, loop, faults, notifs, ndisp, batt>>

nx_stop_stream ==
    /\ variant = "nx"
    /\ EventAllowed
    /\ Called("stop_stream")
    /\ IF ~running
       THEN UNCHANGED <<running, tasks, clients, faults>>
       ELSE /\ running' = FALSE
            /\ Gatt(Append(tasks, NewTask("stop", "start", 0)), Len(tasks) + 1,
                    "write_stop", "unsub", {}, {})
    /\ UNCHANGED <<probe, bridge, variant, address, client, loop, notifs, ndisp, batt>>

\* await self.stop_stream(); await self.client.disconnect()
nx_shutdown ==
    /\ variant = "nx"
    /\ EventAllowed
    /\ Called("shutdown")
    /\ IF ~running
       THEN /\ Disconnect(Append(tasks, NewTask("shutdown", "start", 0)),
                          Len(tasks) + 1, "done")
            /\ UNCHANGED running
       ELSE /\ running' = FALSE
            /\ Gatt(Append(tasks, NewTask("shutdown", "start", 0)), Len(tasks) + 1,
                    "write_stop", "unsub", {}, {})
    /\ UNCHANGED <<probe, bridge, variant, address, client, loop, notifs, ndisp, batt>>

\* the disconnect of NxTracker.shutdown, after its stop_stream returned
ShutdownDisconnect(i) ==
    /\ LoopAlive
    /\ tasks[i].kind = "shutdown"
    /\ tasks[i].pc = "disconnect2"
    /\ Disconnect(tasks, i, "done")
    /\ UNCHANGED <<probe, bridge, variant, running, address, client, loop, calls,
                   notifs, ndisp, batt>>

\* ---------------------------------------------------- notification path
\* a sink of this dispatch that raises: "none", "ui" (self._update) or "osc"
SinkFaults == {"none", "ui", "osc"}

\* f"{x:.2f}" of the component x = num / den: the sign and the hundredths,
\* rounded to nearest, a tie to the even digit
fmt2(x) ==
    LET a == IF x.num < 0 THEN -x.num * 100 ELSE x.num * 100
        q == a \div x.den
        r == a % x.den
    IN  [neg |-> x.num < 0,
         cents |-> IF 2 * r > x.den \/ (2 * r = x.den /\ q % 2 = 1) THEN q + 1 ELSE q]

\* Window.update_quat(quat): the label text it posts with self.after(0, ...)
update_quat(quat) == [k \in 1..Len(quat) |-> fmt2(quat[k])]

\* _on_notify(_handle, data): parse, then the UI sink, then the OSC sink;
\* `raised` is the exception that leaves the handler ("none" if it returns);
\* `streaming` is self._running when the notification is dispatched
on_notify(data, bad) ==
    LET p == parse_packet(data)
        hasOsc == variant \in Runner
    IN  IF ~p.ok
        THEN [quat |-> <<>>, ui |-> "skipped", osc |-> "skipped",
              raised |-> "struct.error", streaming |-> running]
        ELSE IF bad = "ui"
        THEN [quat |-> p.quat, ui |-> "raised", osc |-> "skipped",
              raised |-> "SinkError", streaming |-> running]
        ELSE IF hasOsc /\ bad = "osc"
        THEN [quat |-> p.quat, ui |-> "ok", osc |-> "raised",
              raised |-> "SinkError", streaming |-> running]
        ELSE [quat |-> p.quat, ui |-> "ok",
              osc |-> IF hasOsc THEN "ok" ELSE "skipped", raised |-> "none",
              streaming |-> running]

\* the transport dispatches an orientation notification of a subscribed client
Notify(c, data, bad) ==
    /\ LoopAlive
    /\ EventAllowed
    /\ Connected(c)
    /\ STREAM_UUID \in clients[c].subs
    /\ notifs' = Append(notifs, on_notify(data, bad))
    /\ ndisp' = ndisp + 1
    /\ tkq' = IF variant \in Runner /\ on_notify(data, bad).ui = "ok"
              THEN Append(tkq, update_quat(on_notify(data, bad).quat))
              ELSE tkq
    /\ UNCHANGED <<probe, shown, variant, running, address, client, clients, tasks, loop,
                   faults, calls, batt>>

\* the Tk main loop runs the oldest posted callback: self.lbl.config(text=text)
TkIdle ==
    /\ tkq # <<>>
    /\ shown' = Append(shown, Head(tkq))
    /\ tkq' = Tail(tkq)
    /\ UNCHANGED <<probe, variant, running, address, client, clients, tasks, loop,
                   faults, calls, notifs, ndisp, batt>>

\* _batt_notify(_handle, data): self._batt_update(int.from_bytes(data))
BattNotify(c, b) ==
    /\ LoopAlive
    /\ EventAllowed
    /\ Connected(c)
    /\ BATTERY_UUID \in clients[c].subs
    /\ batt' = <<b>>
    /\ ndisp' = ndisp + 1
    /\ UNCHANGED <<probe, bridge, variant, running, address, client, clients, tasks, loop,
                   faults, calls, notifs>>

\* ------------------------------------------------------------------- Next
Next ==
    \/ start_stream
    \/ stop_stream
    \/ reset
    \/ shutdown
    \/ LoopStop
    \/ \E i \in 1..Len(tasks) : GoBegin(i)
    \/ \E i \in 1..Len(tasks) : GoDiscovered(i)
    \/ \E i \in 1..Len(tasks) : GoConnected(i)
    \/ \E i \in 1..Len(tasks) : GoWriteStart(i)
    \/ \E i \in 1..Len(tasks) : GoNotifyStream(i)
    \/ \E i \in 1..Len(tasks) : GoNotifyBatt(i)
    \/ \E i \in 1..Len(tasks) : GoReadBatt(i)
    \/ \E i \in 1..Len(tasks) : StopWrite(i)
    \/ \E i \in 1..Len(tasks) : StopNotify(i)
    \/ \E i \in 1..Len(tasks) : StopDisconnect(i)
    \/ \E i \in 1..Len(tasks) : ResetA(i)
    \/ \E i \in 1..Len(tasks) : ResetB(i)
    \/ nx_start_stream
    \/ nx_stop_stream
    \/ nx_shutdown
    \/ \E i \in 1..Len(tasks) : ShutdownDisconnect(i)
    \/ \E c \in 1..Len(clients), data \in Packets, bad \in SinkFaults : Notify(c, data, bad)
    \/ \E c \in 1..Len(clients), b \in BattLevels : BattNotify(c, b)
    \/ TkIdle

Spec == Init /\ [][Next]_vars

\* ------------------------------------- the device locator applied on its own
\* the variables of the session, which a pure function leaves alone
session == <<variant, running, address, client, clients, tasks, loop,
             faults, calls, notifs, ndisp, batt, tkq, shown>>

\* a session as constructed by Window(""), before any call
IdleSession ==
    /\ variant = "opennx"
    /\ running = FALSE
    /\ address = ""
    /\ client = 0
    /\ clients = <<>>
    /\ tasks = <<>>
    /\ loop = "running"
    /\ faults = 0
    /\ calls = <<>>
    /\ notifs = <<>>
    /\ ndisp = 0
    /\ batt = <<>>
    /\ tkq = <<>>
    /\ shown = <<>>

\* advertised names: the tracker's, a prefix of it, another device's
ScanNames == {DEVICE_NAME, "Nx Tracker", "Other"}

ScanDevices == [name : ScanNames, address : {DeviceAddress, "CC:DD"}]

\* the lists scanner.discover() can return, up to MaxScan devices
ScanLists == UNION {[1..n -> ScanDevices] : n \in 0..MaxScan}

Locators == {"get_nx_tracker", "discover_nx_trackers"}

InitLocate ==
    /\ IdleSession
    /\ probe \in [fn : Locators, in : ScanLists, out : {<<>>}]

\* get_nx_tracker of the two tracker.py on the scanned list
Locate ==
    /\ probe.fn = "get_nx_tracker"
    /\ probe.out = <<>>
    /\ probe' = [probe EXCEPT !.out = <<get_nx_tracker(probe.in)>>]
    /\ UNCHANGED session

\* discover_nx_trackers of nx.py on the scanned list
Discover ==
    /\ probe.fn = "discover_nx_trackers"
    /\ probe.out = <<>>
    /\ probe' = [probe EXCEPT !.out = <<discover_nx_trackers(probe.in)>>]
    /\ UNCHANGED session

NextLocate == Locate \/ Discover

SpecLocate == InitLocate /\ [][NextLocate]_vars

\* --------------------------------------- the packet codec applied on its own
\* signed 16-bit values put on the wire: the extremes, -1.0, 1.0 and around 0
Int16Samples == {-32768, -16384, -1, 0, 1, 16384, 32767}

\* the two bytes of a little-endian signed 16-bit integer
pack16(x) ==
    LET u == IF x < 0 THEN x + 65536 ELSE x IN <<u % 256, u \div 256>>

\* the 10 bytes of five little-endian signed 16-bit integers (format "<5h")
pack5h(v) == pack16(v[1]) \o pack16(v[2]) \o pack16(v[3]) \o pack16(v[4]) \o pack16(v[5])

InitCodec ==
    /\ IdleSession
    /\ probe \in {[fn |-> "parse_packet", v |-> v, in |-> pack5h(v), out |-> <<>>] :
                    v \in [1..5 -> Int16Samples]}

\* parse_packet on the packet
Decode ==
    /\ probe.fn = "parse_packet"
    /\ probe.out = <<>>
    /\ probe' = [probe EXCEPT !.out = <<parse_packet(probe.in)>>]
    /\ UNCHANGED session

NextCodec == Decode

SpecCodec == InitCodec /\ [][NextCodec]_vars

\* =================================================================== claims
TaskIds == 1..Len(tasks)

GoTasks == {i \in TaskIds : tasks[i].kind = "go"}

StopTasks == {i \in TaskIds : tasks[i].kind \in {"stop", "shutdown"}}

\* task i issued operation op and the transport reported success
DidOk(i, op) == \E k \in 1..Len(tasks[i].ops) :
                    tasks[i].ops[k].op = op /\ tasks[i].ops[k].ok

\* position of the first successful op in task i's operations (0 = none)
PosOk(i, op) ==
    IF DidOk(i, op)
    THEN CHOOSE k \in 1..Len(tasks[i].ops) :
             /\ tasks[i].ops[k].op = op /\ tasks[i].ops[k].ok
             /\ \A m \in 1..(k - 1) : ~(tasks[i].ops[m].op = op /\ tasks[i].ops[m].ok)
    ELSE 0

\* ------------------------------------------------------------------ C1
\* Between two _go coroutines there is always a _stop: no second connect
\* sequence is scheduled without an intervening stop.
GoTasksSeparated ==
    \A i, j \in GoTasks : i < j => \E k \in StopTasks : i < k /\ k < j

\* C1: a start_stream call made while the session is already running changes
\* nothing: it schedules no coroutine and issues no transport operation, so two
\* starts with no stop in between run the connect / write / subscribe sequence once.
C1_SecondStartIsNoOp ==
    /\ [][(calls' = Append(calls, "start_stream") /\ running)
            => UNCHANGED <<running, address, client, clients, tasks, loop, faults>>]_vars
    /\ []GoTasksSeparated

\* two start_stream calls in a row, the first one's sequence completed
C1_Witness ==
    /\ \E k \in 1..(Len(calls) - 1) : calls[k] = "start_stream" /\ calls[k + 1] = "start_stream"
    /\ Cardinality(GoTasks) = 1
    /\ \E i \in GoTasks : DidOk(i, "connect") /\ DidOk(i, "start_notify_stream")
    /\ running

\* ------------------------------------------------------------------ C2
\* C2: a stop_stream call made while the session is Idle changes nothing: no
\* coroutine is scheduled, no write, unsubscribe or disconnect is issued, and the
\* running flag stays false.
C2_StopWhileIdleIsNoOp ==
    [][(calls' = Append(calls, "stop_stream") /\ ~running)
         => UNCHANGED <<running, address, client, clients, tasks, loop, faults>>]_vars

\* stop_stream called again after a stop that already ran to completion
C2_Witness ==
    /\ Len(calls) >= 2
    /\ calls[Len(calls)] = "stop_stream"
    /\ calls[Len(calls) - 1] = "stop_stream"
    /\ Cardinality(StopTasks) = 1
    /\ \E i \in StopTasks : tasks[i].pc = "done"
    /\ ~running

\* ------------------------------------------------------------------ C3
\* C3: when the latest start connected and then failed at a later step, and
\* nothing was submitted since, the session is Idle, the connection it opened is
\* released and no subscription of it is left.
C3_FailedStartRollsBack ==
    \A i \in GoTasks :
        (i = Len(tasks) /\ tasks[i].pc = "failed" /\ DidOk(i, "connect"))
            => /\ ~running
               /\ clients[tasks[i].cl].conn # "connected"
               /\ clients[tasks[i].cl].subs = {}

\* ------------------------------------------------------------------ C4
\* C4: the session is Streaming only if the latest start has subscribed to the
\* orientation channel successfully.
C4_StreamingOnlyAfterSubscribe ==
    running =>
        /\ GoTasks # {}
        /\ LET g == CHOOSE i \in GoTasks : \A j \in GoTasks : j <= i
           IN  DidOk(g, "start_notify_stream")

\* ------------------------------------------------------------------ C5
\* C5: once stop_stream (or shutdown) has been called from Streaming, and until
\* the next start, the session is Idle, whether the stop write, the unsubscribe
\* or the disconnect succeeded, failed or has not run yet.
C5_StopEndsIdle ==
    \A i \in StopTasks :
        (\A j \in GoTasks : j < i) => ~running

\* a stop whose unsubscribe failed on a live connection: the session is Idle
C5_Witness ==
    \E i \in StopTasks :
        /\ \A j \in GoTasks : j < i
        /\ tasks[i].pc = "failed"
        /\ Len(tasks[i].ops) = 2
        /\ tasks[i].ops[2].op = "stop_notify_stream"
        /\ Connected(tasks[i].ops[2].cl)
        /\ ~running

\* ------------------------------------------------------------------ C6
\* the start that a stop matches: the latest _go submitted before it
MatchingGo(i) == CHOOSE g \in GoTasks : g < i /\ \A j \in GoTasks : j < i => j <= g

Subscribed(g) ==
    {ch \in {STREAM_UUID, BATTERY_UUID} :
        DidOk(g, IF ch = STREAM_UUID THEN "start_notify_stream" ELSE "start_notify_batt")}

Unsubscribed(i) ==
    {ch \in {STREAM_UUID, BATTERY_UUID} :
        DidOk(i, IF ch = STREAM_UUID THEN "stop_notify_stream" ELSE "stop_notify_batt")}

\* a _stop, or a shutdown whose stop_stream ran from Streaming
FromStreaming(i) ==
    \/ tasks[i].kind = "stop"
    \/ tasks[i].kind = "shutdown" /\ Len(tasks[i].ops) > 1

\* C6: a stop that ran from Streaming to its disconnect, after a start that
\* completed, has issued the stop write, then an unsubscribe for every channel
\* that start subscribed to, then the disconnect.
C6_StopUnsubscribesAll ==
    \A i \in StopTasks :
        (/\ FromStreaming(i)
         /\ DidOk(i, "disconnect")
         /\ \E g \in GoTasks : g < i
         /\ tasks[MatchingGo(i)].pc = "done")
            => /\ DidOk(i, "write_stop")
               /\ Subscribed(MatchingGo(i)) \subseteq Unsubscribed(i)
               /\ PosOk(i, "write_stop") < PosOk(i, "stop_notify_stream")
               /\ PosOk(i, "stop_notify_stream") < PosOk(i, "disconnect")

\* ------------------------------------------------------------------ C7
\* task record t has issued a transport operation and has more to issue
MidFlight(t) ==
    t.pc \notin {"start", "discover", "done", "failed"}

\* in this step, task i issues a transport operation or sees one complete
TransportStep(i) ==
    \/ tasks'[i].ops # tasks[i].ops
    \/ tasks[i].pc # "connect" /\ tasks'[i].pc = "connect"

\* C7: the coroutines of a BleakRunner are serialized: while one coroutine is
\* between its first and its last transport step, no other coroutine executes a
\* transport step.
C7_ControlOperationsSerialized ==
    [][\A i \in TaskIds :
         (variant \in Runner /\ TransportStep(i))
             => \A j \in TaskIds \ {i} : ~MidFlight(tasks[j])]_vars

\* ------------------------------------------------------------------ C8
\* C8: when the event loop stops, every control coroutine submitted so far,
\* the _stop of shutdown included, has run to completion or failure.
C8_LoopStopsAfterInFlight ==
    [][(loop # "stopped" /\ loop' = "stopped") => \A i \in TaskIds : Finished(tasks[i])]_vars

\* ------------------------------------------------------------------ C9
\* C9: a sink that raises on a notification does not keep the sample from the
\* sinks after it, and its exception does not leave the notification handler.
C9_SinkFailureIsolated ==
    \A n \in 1..Len(notifs) :
        /\ (notifs[n].ui = "raised" /\ variant \in Runner) => notifs[n].osc # "skipped"
        /\ (notifs[n].ui = "raised" \/ notifs[n].osc = "raised") => notifs[n].raised = "none"
        /\ notifs[n].quat # <<>> => notifs[n].ui # "skipped"

\* ------------------------------------------------------------------ C10
\* C10: a notification whose payload is not 10 bytes is dropped: no sink is
\* invoked for it and no exception leaves the notification handler; a well-formed
\* notification is delivered to the sinks whatever came before it.
C10_MalformedPacketDropped ==
    \A n \in 1..Len(notifs) :
        /\ notifs[n].quat = <<>>
              => /\ notifs[n].ui = "skipped"
                 /\ notifs[n].osc = "skipped"
                 /\ notifs[n].raised = "none"
        /\ notifs[n].quat # <<>> => notifs[n].ui # "skipped"

\* ------------------------------------------------------------------ C11
\* C11: when every notification so far was well-formed and arrived while the
\* session was Streaming, each sample reached the UI sink and then the OSC sink
\* once, and the label texts posted through after() (run or still queued) are
\* the samples' texts in the order the samples arrived.
C11_SamplesReachBothSinksInOrder ==
    (/\ variant \in Runner
     /\ \A n \in 1..Len(notifs) : notifs[n].quat # <<>> /\ notifs[n].streaming)
        => /\ \A n \in 1..Len(notifs) : notifs[n].ui = "ok" /\ notifs[n].osc = "ok"
           /\ shown \o tkq = [n \in 1..Len(notifs) |-> update_quat(notifs[n].quat)]

\* ------------------------------------------------------------------ C12
\* C12: a start, stop or reset coroutine that failed (device not found, connect
\* or write failure) has its failure delivered to the caller: its outcome is
\* awaited or read by the code that made the call.
C12_FailuresReachCaller ==
    \A i \in TaskIds :
        (/\ tasks[i].pc = "failed"
         /\ tasks[i].kind \in {"go", "stop", "reset"}
         /\ tasks[i].err \in {"BleakError", "RuntimeError"})
            => tasks[i].fut = "awaited"

\* ------------------------------------------------------------------ C13
ResetTasks == {i \in TaskIds : tasks[i].kind = "reset"}

\* C13: a reset called in any session state, Idle (before the first start or
\* after a stop) or Streaming, issues its two control writes and does not fail,
\* as long as the transport injects no failure.
C13_ResetValidInAnyState ==
    \A i \in ResetTasks :
        (Finished(tasks[i]) /\ faults = 0)
            => /\ tasks[i].pc = "done"
               /\ Len(tasks[i].ops) = 2
               /\ tasks[i].ops[1].data = <<50, 0, 0, 0, 0>>
               /\ tasks[i].ops[2].data = <<50, 0, 0, 0, 1>>

\* ------------------------------------------------------------------ C14
\* positions of the scan list whose advertised name is exactly the tracker's
Matches(devs) == {k \in 1..Len(devs) : devs[k].name = "Nx Tracker 2"}

\* the j-th smallest position of M
Nth(M, j) == CHOOSE k \in M : Cardinality({m \in M : m < k}) = j - 1

C15_DecodeInWireOrder ==
    (probe.fn = "parse_packet" /\ probe.out # <<>>) =>
        LET r == probe.out[1] IN
        /\ r.ok
        /\ Len(r.quat) = 4
        /\ \A k \in 1..4 :
              /\ r.quat[k].num = probe.v[k]
              /\ r.quat[k].den = 16384
              /\ -2 * r.quat[k].den <= r.quat[k].num
              /\ r.quat[k].num < 2 * r.quat[k].den
        /\ \A x \in Int16Samples : r = parse_packet(pack5h([probe.v EXCEPT ![5] = x]))

\* a decoded packet with four different components, -2.0 among them, and a
\* fifth value that is not zero
C15_Witness ==
    /\ probe.fn = "parse_packet"
    /\ probe.out # <<>>
    /\ probe.v = <<-32768, 32767, -1, 16384, 1>>
    /\ probe.in = <<0, 128, 255, 127, 255, 255, 0, 64, 1, 0>>
    /\ probe.out[1].quat[1] = [num |-> -32768, den |-> 16384]

\* ------------------------------------------------------------------ C16
OpenClients == {c \in 1..Len(clients) : clients[c].conn = "connected"}

\* C16: a session never holds two open connections: no client is connected
\* while a client connected by an earlier start is still connected.
C16_AtMostOneConnection == Cardinality(OpenClients) <= 1

\* ------------------------------------------------------------------ C17
\* the payloads of the operations a task has issued, in order
Written(i) == [k \in 1..Len(tasks[i].ops) |-> tasks[i].ops[k].data]

\* a step of the reset call or of a _reset coroutine
ResetStep ==
    \/ calls' = Append(calls, "reset")
    \/ \E i \in ResetTasks : tasks'[i] # tasks[i]

\* C17 as stated: every reset that ended, its first write issued on a connected
\* client, has issued exactly two writes, [0x32,0,0,0,0] then [0x32,0,0,0,1].
C17_EveryResetIssuesTwoWrites ==
    \A i \in ResetTasks :
        (/\ Finished(tasks[i])
         /\ tasks[i].ops # <<>>
         /\ tasks[i].ops[1].conn = "connected")
            => Written(i) = << <<50, 0, 0, 0, 0>>, <<50, 0, 0, 0, 1>> >>

\* C17, amended: a reset issues [0x32,0,0,0,0] first and [0x32,0,0,0,1] only
\* after the first write completed successfully, never a third write; a reset
\* that completed has issued both, one that failed has issued at most the
\* writes up to the failing one; no step of reset changes the running flag, the
\* connection or the subscriptions.
C17_ResetWritesInOrder ==
    /\ [](\A i \in ResetTasks :
            /\ \/ Written(i) = <<>>
               \/ Written(i) = << <<50, 0, 0, 0, 0>> >>
               \/ /\ Written(i) = << <<50, 0, 0, 0, 0>>, <<50, 0, 0, 0, 1>> >>
                  /\ tasks[i].ops[1].ok
            /\ tasks[i].pc = "done" => Len(tasks[i].ops) = 2 /\ tasks[i].ops[2].ok
            /\ tasks[i].pc = "failed" =>
                   \/ tasks[i].ops = <<>> /\ tasks[i].err = "AttributeError"
                   \/ tasks[i].ops # <<>> /\ ~tasks[i].ops[Len(tasks[i].ops)].ok)
    /\ [][ResetStep => UNCHANGED <<running, client, clients>>]_vars

\* a reset that completed both writes on a streaming, subscribed session
C17_Witness ==
    \E i \in ResetTasks :
        /\ tasks[i].pc = "done"
        /\ Written(i) = << <<50, 0, 0, 0, 0>>, <<50, 0, 0, 0, 1>> >>
        /\ running
        /\ Connected(client)
        /\ STREAM_UUID \in clients[client].subs

\* ------------------------------------------------------------------ C18
\* the names of the operations a task has issued, in order
OpNames(i) == [k \in 1..Len(tasks[i].ops) |-> tasks[i].ops[k].op]

\* C18 as stated: once start_stream has returned from a start that does not
\* fail, the battery sink has received a value.
C18_BatteryKnownWhenStartReturns ==
    \A i \in GoTasks :
        (variant = "opennx" /\ tasks[i].pc # "failed") => batt # <<>>

\* C18, amended: in the battery variant a _go that completed has subscribed to
\* both channels, then read the battery characteristic once, and the battery
\* sink has received a value; start_stream itself returns before that.
C18_BatteryReadBeforeGoCompletes ==
    \A i \in GoTasks :
        (variant = "opennx" /\ tasks[i].pc = "done")
            => /\ OpNames(i) = <<"connect", "write_start", "start_notify_stream",
                                 "start_notify_batt", "read_batt">>
               /\ \A k \in 1..Len(tasks[i].ops) : tasks[i].ops[k].ok
               /\ batt # <<>>
               /\ batt[1] \in BattLevels

\* a completed start whose battery value came from the read: no notification
\* has been dispatched
C18_Witness ==
    /\ variant = "opennx"
    /\ \E i \in GoTasks : tasks[i].pc = "done"
    /\ ndisp = 0
    /\ batt = <<87>>

\* ------------------------------------------------------------------ C19
\* C19: a _stop or _reset submitted right after a start finds self.client
\* created and connected: it does not find the attribute missing, and every
\* characteristic write or unsubscribe it issues is issued on a connected client.
C19_OperationsOnConnectedClient ==
    variant \in Runner =>
        \A i \in TaskIds \ {1} :
            (tasks[i].kind \in {"stop", "reset"} /\ tasks[i - 1].kind = "go")
                => /\ tasks[i].err # "AttributeError"
                   /\ \A k \in 1..Len(tasks[i].ops) :
                          tasks[i].ops[k].op # "disconnect"
                              => tasks[i].ops[k].conn = "connected"

\* ------------------------------------------------------------------ C20
\* no control coroutine is pending or running on the loop
Quiescent == \A i \in TaskIds : Finished(tasks[i])

\* C20: after any sequence of start_stream and stop_stream calls, once no
\* coroutine is pending or running and no transport operation on a connected
\* client has failed, the running flag is true exactly when the client is
\* connected with the orientation subscription active, and false exactly when
\* the client is disconnected or was never created.
C20_FlagAgreesWithConnection ==
    (/\ variant \in Runner
     /\ Quiescent
     /\ faults = 0
     /\ loop = "running"
     /\ \A k \in 1..Len(calls) : calls[k] \in {"start_stream", "stop_stream"})
        => /\ running <=> (Connected(client) /\ STREAM_UUID \in clients[client].subs)
           /\ ~running <=> ~Connected(client)

====
